---- MODULE Spec2Model ----
(***************************************************************************)
(* Model of src/bot_web.py: the indicators of TechnicalAnalyzer and its     *)
(* additive signal scorer (generate_trading_signal), the unattended        *)
(* analysis loop with its duplicate gate (auto_analysis_loop), the         *)
(* delivery routine (send_real_signal_with_chart), the operator's commands *)
(* and the shutdown path of RealTradingBot.run.                            *)
(*                                                                         *)
(* Spec follows the loop, the clock and the shutdown; OperatorSpec the     *)
(* loop, the clock and the commands; DaySpec the loop alone for a day;     *)
(* ScorerSpec and IndicatorSpec apply the scorer and the indicators to     *)
(* every input of a bounded set.                                           *)
(*                                                                         *)
(* Time is a wall clock counted in units of 1/UnitsPerHour hour.  The      *)
(* clock advances on its own (AdvanceClock) between any two steps of the   *)
(* program.  Russian string literals of the source are transliterated.     *)
(***************************************************************************)
EXTENDS Integers, Sequences, FiniteSets, TLC

VARIABLES
    now,           \* datetime.now(), in clock units since the process started
    running,       \* self.running
    exited,        \* the process has ended (sys.exit in run)
    main_pc,       \* position of the main thread in run
    pc,            \* position of the analysis thread in auto_analysis_loop
    i,             \* index of `symbol` in SYMBOLS inside the for loop (0 outside)
    analysis,      \* analysis['trading_signal'] of the instrument at the gate
    signal_key,    \* local signal_key of the loop
    key_at,        \* history: clock value at which signal_key was computed
    success,       \* outcome of the loop's last delivery call (local `success`)
    last_signals,  \* self.last_signals: key -> datetime of approval
    elapsed,       \* clock units that passed in the thread's current phase (see Tick)
    gate_log,      \* history: the gate's last decision in the current tick
    approved,      \* history: loop approvals <<symbol, action, clock hour of evaluation>>
    evaluated,     \* history: per instrument, evaluations begun in the current tick
    faults,        \* history: instruments whose evaluation failed in the current tick
    cancel_idx,    \* history: instrument under evaluation when running was cleared
    cmd_sent,      \* the last alert the latest operator command delivered
    chat_id,       \* self.chat_id
    sc_in,         \* scorer check: the inputs of generate_trading_signal
    sc_out,        \* scorer check: its result
    ind_in,        \* indicator check: a series, by its length and the values computed from it
    ind_out        \* indicator check: what the five indicators return for it

vars == <<now, running, exited, main_pc, pc, i, analysis, signal_key, key_at, success,
          last_signals, elapsed, gate_log, approved, evaluated, faults, cancel_idx,
          cmd_sent, chat_id, sc_in, sc_out, ind_in, ind_out>>

scVars == <<sc_in, sc_out, ind_in, ind_out>>

\* None where the program has a string or a list, a key, or a signal dict
None == <<>>
NoKey == <<>>
NoSignal == [action |-> "None", confidence |-> 0, risk_level |-> "None"]

-----------------------------------------------------------------------------
(* Bounds of the model *)

NumSymbols == 2
UnitsPerHour == 2
MaxTime == 3
MaxTimeDay == 48
MaxTickUnits == 1
MaxBars == 36

(* Program constants *)

HoursPerDay == 24
RetentionHours == 1
AutoThreshold == 70
ManualThreshold == 60
SendMinConfidence == 60
TELEGRAM_CHAT_ID == 1037258513

AllSymbols == <<"XAUUSD", "XAGUSD", "EURUSD", "GBPUSD",
                "NZDUSD", "USDCAD", "USDCHF", "AUDUSD">>
SYMBOLS == SubSeq(AllSymbols, 1, NumSymbols)

Min(a, b) == IF a < b THEN a ELSE b
Max(a, b) == IF a > b THEN a ELSE b
Abs(x) == IF x < 0 THEN -x ELSE x

-----------------------------------------------------------------------------
(* TechnicalAnalyzer: the indicators, each on a series of n bars and on the  *)
(* values the pandas expressions yield for its last bar                      *)

TrendMinBars == 20
RsiPeriod == 14
MacdMinBars == 35
BollingerPeriod == 20
AtrPeriod == 14

\* pd.isna(series.rolling(window).mean().iloc[-1]): a rolling window is NaN
\* until it is full (delta.where(..., 0) and the row-wise max leave no NaN)
RollingIsNaN(n, window) == n < window

\* The strings analyze_trend returns, as their words.
TrendInsufficient == <<"Nedostatochno", "dannykh">>
TrendStrongBull == <<"Silnyy", "bychiy">>
TrendBull == <<"Bychiy">>
TrendStrongBear == <<"Silnyy", "medvezhiy">>
TrendBear == <<"Medvezhiy">>
TrendSideways == <<"Bokovoy">>
TrendLabels == {TrendInsufficient, TrendStrongBull, TrendBull,
                TrendStrongBear, TrendBear, TrendSideways}

\* The strings analyze_rsi returns (without the number), as their words.
RsiOversold == <<"PEREPRODANO">>
RsiOverbought == <<"PEREKUPLENO">>
RsiBuyLeaning == <<"Vozmozhna", "pokupka">>
RsiSellLeaning == <<"Vozmozhna", "prodazha">>
RsiNeutral == <<"Neytralno">>
RsiSignals == {None, RsiOversold, RsiOverbought, RsiBuyLeaning,
               RsiSellLeaning, RsiNeutral}

\* analyze_macd and analyze_bollinger; "None" is Python's None
MacdSignals == {"None", "BYCHIY", "MEDVEZHIY", "NET SIGNALA"}
BbSignals == {"None", "VERKHNYAYA GRANITSA", "NIZHNYAYA GRANITSA", "VNUTRI KANALA"}

\* lines 214-239; a chained comparison a > b > c is a > b and b > c
analyze_trend(n, current_price, ema20_val, ema50_val) ==
    IF n = 0 \/ n < TrendMinBars THEN TrendInsufficient
    ELSE IF current_price > ema20_val /\ ema20_val > ema50_val THEN TrendStrongBull
    ELSE IF current_price > ema20_val /\ ema20_val > ema50_val THEN TrendBull
    ELSE IF current_price < ema20_val /\ ema20_val < ema50_val THEN TrendStrongBear
    ELSE IF current_price < ema20_val /\ ema20_val < ema50_val THEN TrendBear
    ELSE TrendSideways

\* A variant of analyze_rsi with the inner bands open at both ends
analyze_rsi_open_bands(n, rsi_value) ==
    IF n < RsiPeriod + 1 THEN None
    ELSE IF RollingIsNaN(n, RsiPeriod) THEN None
    ELSE IF rsi_value < 30 THEN RsiOversold
    ELSE IF rsi_value > 70 THEN RsiOverbought
    ELSE IF 30 < rsi_value /\ rsi_value < 40 THEN RsiBuyLeaning
    ELSE IF 60 < rsi_value /\ rsi_value < 70 THEN RsiSellLeaning
    ELSE RsiNeutral

\* lines 242-274
analyze_rsi(n, rsi_value) ==
    IF n < RsiPeriod + 1 THEN None
    ELSE IF RollingIsNaN(n, RsiPeriod) THEN None
    ELSE IF rsi_value < 30 THEN RsiOversold
    ELSE IF rsi_value > 70 THEN RsiOverbought
    ELSE IF 30 <= rsi_value /\ rsi_value <= 40 THEN RsiBuyLeaning
    ELSE IF 60 <= rsi_value /\ rsi_value <= 70 THEN RsiSellLeaning
    ELSE RsiNeutral

\* lines 277-300; histogram = macd_line - signal_line
analyze_macd(n, macd_val, signal_val) ==
    LET hist_val == macd_val - signal_val
    IN  IF n < MacdMinBars THEN "None"
        ELSE IF macd_val > signal_val /\ hist_val > 0 THEN "BYCHIY"
        ELSE IF macd_val < signal_val /\ hist_val < 0 THEN "MEDVEZHIY"
        ELSE "NET SIGNALA"

\* A variant of analyze_bollinger that tests the lower band first
analyze_bollinger_lower_first(n, current_price, upper_val, lower_val) ==
    IF n < BollingerPeriod THEN "None"
    ELSE IF current_price <= lower_val THEN "NIZHNYAYA GRANITSA"
    ELSE IF current_price >= upper_val THEN "VERKHNYAYA GRANITSA"
    ELSE "VNUTRI KANALA"

\* lines 303-326
analyze_bollinger(n, current_price, upper_val, lower_val) ==
    IF n < BollingerPeriod THEN "None"
    ELSE IF current_price >= upper_val THEN "VERKHNYAYA GRANITSA"
    ELSE IF current_price <= lower_val THEN "NIZHNYAYA GRANITSA"
    ELSE "VNUTRI KANALA"

\* A variant of calculate_atr that asks for one bar more than the period
calculate_atr_one_more(n, tr_mean) ==
    IF n < AtrPeriod + 1 THEN 0
    ELSE IF RollingIsNaN(n, AtrPeriod) THEN 0 ELSE tr_mean

\* lines 329-346; tr_mean is the mean of the true range over the last period
calculate_atr(n, tr_mean) ==
    IF n < AtrPeriod THEN 0
    ELSE IF RollingIsNaN(n, AtrPeriod) THEN 0 ELSE tr_mean

\* detect_patterns_simple appends in this order: hammer, one engulfing, doji.
PatternLists ==
    { h \o e \o d : h \in {<<>>, <<"Molot">>},
                    e \in {<<>>, <<"Bychye pogloshchenie">>, <<"Medvezhye pogloshchenie">>},
                    d \in {<<>>, <<"Dodzhi">>} }

\* str.lower() on one word.
LowerWord(w) ==
    CASE w = "Silnyy" -> "silnyy"
      [] w = "Bychiy" -> "bychiy"
      [] w = "Medvezhiy" -> "medvezhiy"
      [] w = "Bokovoy" -> "bokovoy"
      [] w = "Nedostatochno" -> "nedostatochno"
      [] OTHER -> w
Lower(s) == [k \in 1..Len(s) |-> LowerWord(s[k])]

\* `word in text` for a text given as its words.
Contains(text, word) == \E k \in 1..Len(text) : text[k] = word

TrendPoints(trend) ==
    IF Contains(Lower(trend), "bychiy") THEN 20
    ELSE IF Contains(Lower(trend), "medvezhiy") THEN -20
    ELSE 0

RsiPoints(rsi_signal) ==
    IF rsi_signal = None THEN 0
    ELSE IF Contains(rsi_signal, "PEREPRODANO") \/ Contains(rsi_signal, "pokupka") THEN 15
    ELSE IF Contains(rsi_signal, "PEREKUPLENO") \/ Contains(rsi_signal, "prodazha") THEN -15
    ELSE 0

MacdPoints(macd_signal) ==
    IF macd_signal = "BYCHIY" THEN 15
    ELSE IF macd_signal = "MEDVEZHIY" THEN -15
    ELSE 0

\* A variant of BbPoints with the two bands exchanged
BbPointsExchanged(bb_signal) ==
    IF bb_signal = "NIZHNYAYA GRANITSA" THEN -10
    ELSE IF bb_signal = "VERKHNYAYA GRANITSA" THEN 10
    ELSE 0

BbPoints(bb_signal) ==
    IF bb_signal = "NIZHNYAYA GRANITSA" THEN 10
    ELSE IF bb_signal = "VERKHNYAYA GRANITSA" THEN -10
    ELSE 0

bullish_patterns == {"Molot", "Bychye pogloshchenie"}
bearish_patterns == {"Medvezhye pogloshchenie", "Dodzhi"}

RECURSIVE PatternPoints(_)
PatternPoints(patterns) ==
    IF patterns = <<>> THEN 0
    ELSE (IF Head(patterns) \in bullish_patterns THEN 10
          ELSE IF Head(patterns) \in bearish_patterns THEN -10
          ELSE 0) + PatternPoints(Tail(patterns))

\* abs(current_price - level) / level < 0.002, on integer prices
Near(price, level) ==
    /\ level # 0
    /\ IF level > 0 THEN 1000 * Abs(price - level) < 2 * level ELSE TRUE

\* the first level of the list that is near counts, once
RECURSIVE AnyNear(_, _)
AnyNear(price, levels) ==
    IF levels = <<>> THEN FALSE
    ELSE Near(price, Head(levels)) \/ AnyNear(price, Tail(levels))

SupportPoints(price, sr_levels) == IF AnyNear(price, sr_levels.support) THEN 15 ELSE 0
ResistancePoints(price, sr_levels) == IF AnyNear(price, sr_levels.resistance) THEN -15 ELSE 0

\* The labels appended to `reasons`, each as its words
TrendReason(trend) ==
    IF Contains(Lower(trend), "bychiy") THEN << <<"Voskhodyashchiy", "trend">> >>
    ELSE IF Contains(Lower(trend), "medvezhiy") THEN << <<"Niskhodyashchiy", "trend">> >>
    ELSE <<>>

\* A variant of RsiReason that labels a neutral RSI as well
RsiReasonAlways(rsi_signal) ==
    IF rsi_signal = None THEN <<>>
    ELSE IF Contains(rsi_signal, "PEREKUPLENO") \/ Contains(rsi_signal, "prodazha")
    THEN << <<"Perekuplennost", "RSI">> >>
    ELSE << <<"Pereprodannost", "RSI">> >>

RsiReason(rsi_signal) ==
    IF rsi_signal = None THEN <<>>
    ELSE IF Contains(rsi_signal, "PEREPRODANO") \/ Contains(rsi_signal, "pokupka")
    THEN << <<"Pereprodannost", "RSI">> >>
    ELSE IF Contains(rsi_signal, "PEREKUPLENO") \/ Contains(rsi_signal, "prodazha")
    THEN << <<"Perekuplennost", "RSI">> >>
    ELSE <<>>

MacdReason(macd_signal) ==
    IF macd_signal = "BYCHIY" THEN << <<"Bychiy", "MACD">> >>
    ELSE IF macd_signal = "MEDVEZHIY" THEN << <<"Medvezhiy", "MACD">> >>
    ELSE <<>>

BbReason(bb_signal) ==
    IF bb_signal = "NIZHNYAYA GRANITSA" THEN << <<"Nizhnyaya", "granitsa", "BB">> >>
    ELSE IF bb_signal = "VERKHNYAYA GRANITSA" THEN << <<"Verkhnyaya", "granitsa", "BB">> >>
    ELSE <<>>

\* f"Паттерн {pattern}" for every pattern of either list, in the order of `patterns`
RECURSIVE PatternReasons(_)
PatternReasons(patterns) ==
    IF patterns = <<>> THEN <<>>
    ELSE (IF Head(patterns) \in bullish_patterns \cup bearish_patterns
          THEN << <<"Pattern", Head(patterns)>> >>
          ELSE <<>>) \o PatternReasons(Tail(patterns))

\* round(x, 5) and f"{x:.5f}" for x = num / den in units of 10^-6: the nearest
\* multiple of 10^-5, a tie going to the even one
RoundHalfEven(num, den) ==
    LET q == num \div den
        r == num % den
    IN  IF 2 * r < den THEN q
        ELSE IF 2 * r > den THEN q + 1
        ELSE IF q % 2 = 0 THEN q ELSE q + 1
Round5(num, den) == 10 * RoundHalfEven(num, 10 * den)

\* the first level of the list that is near, as a one-element list
RECURSIVE FirstNear(_, _)
FirstNear(price, levels) ==
    IF levels = <<>> THEN <<>>
    ELSE IF Near(price, Head(levels)) THEN <<Head(levels)>>
    ELSE FirstNear(price, Tail(levels))

\* f"Поддержка {support:.5f}" and f"Сопротивление {resistance:.5f}"
SupportReason(price, sr_levels) ==
    [k \in 1..Len(FirstNear(price, sr_levels.support)) |->
        <<"Podderzhka", Round5(FirstNear(price, sr_levels.support)[k], 1)>>]
ResistanceReason(price, sr_levels) ==
    [k \in 1..Len(FirstNear(price, sr_levels.resistance)) |->
        <<"Soprotivlenie", Round5(FirstNear(price, sr_levels.resistance)[k], 1)>>]

Reasons(in) ==
    TrendReason(in.trend) \o RsiReason(in.rsi_signal) \o MacdReason(in.macd_signal)
    \o BbReason(in.bb_signal) \o PatternReasons(in.patterns)
    \o SupportReason(in.price, in.sr_levels) \o ResistanceReason(in.price, in.sr_levels)

ConfidencePoints(in) ==
    TrendPoints(in.trend) + RsiPoints(in.rsi_signal) + MacdPoints(in.macd_signal)
    + BbPoints(in.bb_signal) + PatternPoints(in.patterns)
    + SupportPoints(in.price, in.sr_levels) + ResistancePoints(in.price, in.sr_levels)

\* A variant of ActionOf with strict comparisons
ActionOfStrict(points) ==
    IF points > 30 THEN "BUY" ELSE IF points < -30 THEN "SELL" ELSE "HOLD"

ActionOf(points) ==
    IF points >= 30 THEN "BUY" ELSE IF points <= -30 THEN "SELL" ELSE "HOLD"

RiskOf(points) ==
    IF points >= 30 THEN (IF points >= 50 THEN "LOW" ELSE "MEDIUM")
    ELSE IF points <= -30 THEN (IF points <= -50 THEN "LOW" ELSE "MEDIUM")
    ELSE "MEDIUM"

\* A variant of Confidence that grows with the strength of either direction
ConfidenceOfStrength(points) == Min(100, 50 + Abs(points))

\* A variant of Confidence without the clamp
ConfidenceUnclamped(points) == 50 + points

\* min(100, max(0, 50 + confidence_points))
Confidence(points) == Min(100, Max(0, 50 + points))

\* Stop loss and take profit, lines 544-553: current_price -/+ atr_value * 1.5
\* and +/- atr_value * 2.5, rounded to 5 decimals; 0 for HOLD
\* A variant of StopLoss that places the stop on the side of the target
StopLossSameSide(action, price, atr_value) ==
    IF action = "BUY" THEN Round5(2 * price + 3 * atr_value, 2)
    ELSE IF action = "SELL" THEN Round5(2 * price - 3 * atr_value, 2)
    ELSE 0

StopLoss(action, price, atr_value) ==
    IF action = "BUY" THEN Round5(2 * price - 3 * atr_value, 2)
    ELSE IF action = "SELL" THEN Round5(2 * price + 3 * atr_value, 2)
    ELSE 0
TakeProfit(action, price, atr_value) ==
    IF action = "BUY" THEN Round5(2 * price + 5 * atr_value, 2)
    ELSE IF action = "SELL" THEN Round5(2 * price - 5 * atr_value, 2)
    ELSE 0

\* The signal dict; `points` is the local confidence_points, kept for the record
generate_trading_signal(in) ==
    IF in.empty THEN NoSignal
    ELSE LET points == ConfidencePoints(in)
         IN  [action |-> ActionOf(points),
              confidence |-> Confidence(points),
              risk_level |-> RiskOf(points),
              points |-> points,
              price |-> Round5(in.price, 1),
              reason |-> Reasons(in),
              sl |-> StopLoss(ActionOf(points), in.price, in.atr_value),
              tp |-> TakeProfit(ActionOf(points), in.price, in.atr_value)]

\* Inputs of the scorer: every label each indicator can return, all pattern
\* lists, a price (in units of 10^-6) with a support / resistance near it, far
\* from it or absent, and the value calculate_atr returns for the series.
ScorerPrices == {1100000}
SupportChoices(p) == {<<>>, <<p - 1000>>, <<p - 10000>>}
ResistanceChoices(p) == {<<>>, <<p + 1000>>, <<p + 10000>>}
AtrValues == {0, 1500, 1234}
ScorerInputs ==
    UNION { [empty : BOOLEAN, trend : TrendLabels, rsi_signal : RsiSignals,
             macd_signal : MacdSignals, bb_signal : BbSignals, patterns : PatternLists,
             price : {p}, atr_value : AtrValues,
             sr_levels : [support : SupportChoices(p), resistance : ResistanceChoices(p)]]
            : p \in ScorerPrices }

\* What analyze_symbol hands to its caller: None (fetch failure, or an exception
\* caught at line 209), or an analysis whose trading_signal is the scorer's
\* result; only action and confidence are read by the callers.
FetchFailed == [action |-> "Failed", confidence |-> 0]
AnalysisResults ==
    {FetchFailed} \cup
    { [action |-> generate_trading_signal(x).action,
       confidence |-> generate_trading_signal(x).confidence] : x \in ScorerInputs }

-----------------------------------------------------------------------------
(* The clock and the duplicate gate *)

HourOf(t) == t \div UnitsPerHour
\* datetime.now().strftime('%H')
HourLabel(t) == HourOf(t) % HoursPerDay
\* timedelta(hours=1)
RetentionUnits == RetentionHours * UnitsPerHour

\* A variant of SignalKey that leaves the hour out of the key
SignalKeyNoHour(symbol, action, t) == <<symbol, action, 0>>

\* f"{symbol}_{signal['action']}_{datetime.now().strftime('%H')}"
SignalKey(symbol, action, t) == <<symbol, action, HourLabel(t)>>

\* signal_key not in self.last_signals
GateAdmits(key, ls) == key \notin DOMAIN ls

\* self.last_signals[signal_key] = datetime.now()
Record(key, t, ls) == [k \in DOMAIN ls \cup {key} |-> IF k = key THEN t ELSE ls[k]]

\* A variant of Purged with the comparison reversed: it keeps the old records
PurgedReversed(ls, current_time) ==
    [k \in {q \in DOMAIN ls : current_time - ls[q] >= RetentionHours * UnitsPerHour} |-> ls[k]]

\* {k: v for k, v in self.last_signals.items() if current_time - v < timedelta(hours=1)}
Purged(ls, current_time) ==
    [k \in {q \in DOMAIN ls : current_time - ls[q] < RetentionUnits} |-> ls[k]]

EmptyMap == [k \in {} |-> 0]

-----------------------------------------------------------------------------
(* RealTradingBot.send_real_signal_with_chart *)

\* update.effective_chat.id: the configured chat, or another one
ChatIds == {TELEGRAM_CHAT_ID, TELEGRAM_CHAT_ID + 1}

NotCalled == [ret |-> FALSE, chart |-> "idle", notified |-> "none", raised |-> FALSE]

\* chart_ok: create_candlestick_chart returned an image (None otherwise);
\* photo_ok: bot.send_photo returned (it raised otherwise, caught at line 964).
send_real_signal_with_chart(signal, chart_ok, photo_ok) ==
    IF chat_id = 0
    THEN [ret |-> FALSE, chart |-> "skipped", notified |-> "none", raised |-> FALSE]
    ELSE IF signal.action = "HOLD" \/ signal.confidence < SendMinConfidence
    THEN [ret |-> FALSE, chart |-> "skipped", notified |-> "none", raised |-> FALSE]
    ELSE IF ~chart_ok
    THEN [ret |-> FALSE, chart |-> "failed", notified |-> "none", raised |-> FALSE]
    ELSE IF ~photo_ok
    THEN [ret |-> FALSE, chart |-> "ok", notified |-> "none", raised |-> FALSE]
    ELSE [ret |-> TRUE, chart |-> "ok", notified |-> "photo", raised |-> FALSE]

\* loop.run_until_complete(...) itself raising: the handler at line 1120 runs
CallRaised == [ret |-> FALSE, chart |-> "skipped", notified |-> "none", raised |-> TRUE]

-----------------------------------------------------------------------------
(* RealTradingBot.auto_analysis_loop *)

N == Len(SYMBOLS)
InTick == pc \in {"for", "gate", "send", "sent"}
NoneEvaluated == [k \in 1..N |-> 0]
NoDecision == [key |-> NoKey, verdict |-> "none"]
NoAlert == [symbol |-> "none", action |-> "none", confidence |-> 0, recorded |-> FALSE]
Bump(c) == IF c < 2 THEN c + 1 ELSE 2

threadVars == <<pc, i, analysis, signal_key, key_at, success>>
histVars == <<gate_log, approved, evaluated, faults>>
mainVars == <<exited, main_pc, cancel_idx>>

\* A variant of PassesAuto that tests the confidence only
PassesAutoAnyAction(r) == r.action \notin {"Failed", "None"} /\ r.confidence > AutoThreshold

\* The loop's test of a candidate, line 1104
PassesAuto(r) == r.action \notin {"Failed", "None", "HOLD"} /\ r.confidence > AutoThreshold

\* A variant of IndexAfterFailure that leaves the for loop
IndexAfterFailureBreak(idx) == Len(SYMBOLS) + 1

\* The for loop goes on with the next symbol after a failed evaluation: a None
\* analysis fails the test of line 1100, an exception is caught at line 1120
IndexAfterFailure(idx) == idx + 1

\* line 1073: self.running = True
LoopStart ==
    /\ ~exited /\ pc = "start"
    /\ running' = TRUE
    /\ pc' = "while"
    /\ UNCHANGED <<now, i, analysis, signal_key, key_at, success, last_signals,
                   elapsed, histVars, mainVars, cmd_sent, chat_id, scVars>>

\* lines 1081-1096: the while test, then mt5_connected()
LoopWhile ==
    /\ ~exited /\ pc = "while"
    /\ \E connected \in BOOLEAN :
         IF ~running
         THEN pc' = "done" /\ i' = i
         ELSE IF ~connected
         THEN pc' = "backoff" /\ i' = i
         ELSE pc' = "for" /\ i' = 1
    /\ elapsed' = 0
    /\ evaluated' = NoneEvaluated
    /\ faults' = {}
    /\ UNCHANGED <<now, running, analysis, signal_key, key_at, success, last_signals,
                   gate_log, approved, mainVars, cmd_sent, chat_id, scVars>>

\* lines 1091-1093: time.sleep(30); continue
LoopBackoff ==
    /\ ~exited /\ pc = "backoff"
    /\ pc' = "while"
    /\ elapsed' = 0
    /\ UNCHANGED <<now, running, i, analysis, signal_key, key_at, success, last_signals,
                   histVars, mainVars, cmd_sent, chat_id, scVars>>

\* lines 1097-1106: analyze_symbol(symbol), the threshold test, the key
LoopAnalyze ==
    /\ ~exited /\ pc = "for" /\ i <= N
    /\ evaluated' = [evaluated EXCEPT ![i] = Bump(@)]
    /\ gate_log' = NoDecision
    /\ \E r \in AnalysisResults :
         IF r = FetchFailed
         THEN /\ i' = IndexAfterFailure(i)
              /\ faults' = faults \cup {i}
              /\ UNCHANGED <<analysis, signal_key, key_at, pc>>
         ELSE IF PassesAuto(r)
         THEN /\ analysis' = r
              /\ signal_key' = SignalKey(SYMBOLS[i], r.action, now)
              /\ key_at' = now
              /\ pc' = "gate"
              /\ UNCHANGED <<i, faults>>
         ELSE /\ i' = i + 1
              /\ UNCHANGED <<analysis, signal_key, key_at, pc, faults>>
    /\ UNCHANGED <<now, running, success, last_signals, elapsed, approved, mainVars,
                   cmd_sent, chat_id, scVars>>

\* lines 1108-1109: the gate
LoopGate ==
    /\ ~exited /\ pc = "gate"
    /\ IF GateAdmits(signal_key, last_signals)
       THEN /\ last_signals' = Record(signal_key, now, last_signals)
            /\ approved' = approved \cup {<<signal_key[1], signal_key[2], HourOf(key_at)>>}
            /\ gate_log' = [key |-> signal_key, verdict |-> "approved"]
            /\ pc' = "send"
            /\ UNCHANGED <<i, analysis, signal_key, key_at>>
       ELSE /\ i' = i + 1
            /\ pc' = "for"
            /\ analysis' = NoSignal
            /\ signal_key' = NoKey
            /\ key_at' = 0
            /\ gate_log' = [key |-> signal_key, verdict |-> "rejected"]
            /\ UNCHANGED <<last_signals, approved>>
    /\ UNCHANGED <<now, running, success, elapsed, evaluated, faults, mainVars,
                   cmd_sent, chat_id, scVars>>

\* lines 1112-1114: success = loop.run_until_complete(send_real_signal_with_chart(analysis))
LoopSend ==
    /\ ~exited /\ pc = "send"
    /\ \E chart_ok \in BOOLEAN, photo_ok \in BOOLEAN, raises \in BOOLEAN :
         success' = IF raises THEN CallRaised
                    ELSE send_real_signal_with_chart(analysis, chart_ok, photo_ok)
    /\ pc' = "sent"
    /\ analysis' = NoSignal
    /\ UNCHANGED <<now, running, i, signal_key, key_at, last_signals,
                   elapsed, histVars, mainVars, cmd_sent, chat_id, scVars>>

\* A variant of LoopSent that forgets the key of an alert that was not delivered
LoopSentRollback ==
    /\ ~exited /\ pc = "sent"
    /\ i' = i + 1
    /\ pc' = "for"
    /\ analysis' = NoSignal
    /\ signal_key' = NoKey
    /\ key_at' = 0
    /\ success' = NotCalled
    /\ faults' = IF success.raised THEN faults \cup {i} ELSE faults
    /\ last_signals' = IF success.ret THEN last_signals
                       ELSE [k \in DOMAIN last_signals \ {signal_key} |-> last_signals[k]]
    /\ UNCHANGED <<now, running, elapsed, gate_log, approved, evaluated,
                   mainVars, cmd_sent, chat_id, scVars>>

\* lines 1116-1121: count and rate-limit on success, log on an exception; next symbol
LoopSent ==
    /\ ~exited /\ pc = "sent"
    /\ i' = IF success.raised THEN IndexAfterFailure(i) ELSE i + 1
    /\ pc' = "for"
    /\ analysis' = NoSignal
    /\ signal_key' = NoKey
    /\ key_at' = 0
    /\ success' = NotCalled
    /\ faults' = IF success.raised THEN faults \cup {i} ELSE faults
    /\ UNCHANGED <<now, running, last_signals, elapsed, gate_log, approved, evaluated,
                   mainVars, cmd_sent, chat_id, scVars>>

\* lines 1123-1128: the bulk purge, once the for loop is exhausted
LoopPurge ==
    /\ ~exited /\ pc = "for" /\ i > N
    /\ last_signals' = Purged(last_signals, now)
    /\ pc' = "sleep"
    /\ i' = 0
    /\ elapsed' = 0
    /\ gate_log' = NoDecision
    /\ UNCHANGED <<now, running, analysis, signal_key, key_at, success, approved,
                   evaluated, faults, mainVars, cmd_sent, chat_id, scVars>>

\* lines 1130-1134: up to CHECK_INTERVAL one-second sleeps, left early once
\* running is false; either way control returns to the while test
LoopSleep ==
    /\ ~exited /\ pc = "sleep"
    /\ pc' = "while"
    /\ elapsed' = 0
    /\ evaluated' = NoneEvaluated
    /\ faults' = {}
    /\ UNCHANGED <<now, running, i, analysis, signal_key, key_at, success, last_signals,
                   gate_log, approved, mainVars, cmd_sent, chat_id, scVars>>

-----------------------------------------------------------------------------
(* RealTradingBot.run: Ctrl-C in the main thread, then sys.exit *)

\* lines 1227-1228: except KeyboardInterrupt: self.running = False
Cancel ==
    /\ ~exited /\ main_pc = "loop"
    /\ running' = FALSE
    /\ main_pc' = "exiting"
    /\ cancel_idx' = IF pc \in {"gate", "send", "sent"} \/ (pc = "for" /\ i <= N)
                     THEN i ELSE 0
    /\ UNCHANGED <<now, exited, threadVars, last_signals, elapsed, histVars,
                   cmd_sent, chat_id, scVars>>

\* lines 1229-1230: sys.exit(0); the daemon threads end with the process,
\* wherever they are, and nothing of the process state remains
ProcessExit ==
    /\ ~exited /\ main_pc = "exiting"
    /\ exited' = TRUE
    /\ running' = FALSE
    /\ pc' = "killed"
    /\ i' = 0
    /\ analysis' = NoSignal
    /\ signal_key' = NoKey
    /\ key_at' = 0
    /\ success' = NotCalled
    /\ last_signals' = EmptyMap
    /\ gate_log' = NoDecision
    /\ elapsed' = 0
    /\ approved' = {}
    /\ evaluated' = NoneEvaluated
    /\ faults' = {}
    /\ cancel_idx' = -1
    /\ cmd_sent' = NoAlert
    /\ chat_id' = TELEGRAM_CHAT_ID
    /\ UNCHANGED <<now, main_pc, scVars>>

-----------------------------------------------------------------------------
(* RealTradingBot.signal_command *)

\* The command's test of a candidate, line 799
PassesManual(r) == r.action \notin {"Failed", "None", "HOLD"} /\ r.confidence > ManualThreshold

\* What one pass of the command's for loop can do for its symbol: deliver the
\* candidate as an alert, or deliver nothing (lines 794-806)
NoOutcome == [action |-> "none", confidence |-> 0]
CmdSymbolOutcomes ==
    { IF PassesManual(r) /\ send_real_signal_with_chart(r, c, p).ret THEN r ELSE NoOutcome :
        r \in AnalysisResults, c \in BOOLEAN, p \in BOOLEAN }

\* The last alert a pass over SYMBOLS[1..k] delivered, with whether its key
\* was in the map ls at the time
RECURSIVE LastDelivered(_, _, _, _)
LastDelivered(out, k, ls, t) ==
    IF k = 0 THEN NoAlert
    ELSE IF out[k] # NoOutcome
    THEN [symbol |-> SYMBOLS[k], action |-> out[k].action, confidence |-> out[k].confidence,
          recorded |-> SignalKey(SYMBOLS[k], out[k].action, t) \in DOMAIN ls]
    ELSE LastDelivered(out, k - 1, ls, t)

\* A variant of the command that passes its candidates through the gate
SignalCommandGated ==
    /\ ~exited
    /\ \E out \in [1..N -> CmdSymbolOutcomes] :
         LET sent == {q \in 1..N : /\ out[q] # NoOutcome
                                    /\ SignalKey(SYMBOLS[q], out[q].action, now)
                                          \notin DOMAIN last_signals}
             fresh == { SignalKey(SYMBOLS[q], out[q].action, now) : q \in sent }
             last == CHOOSE q \in sent : \A r \in sent : r <= q
         IN  /\ sent # {}
             /\ cmd_sent' = [symbol |-> SYMBOLS[last], action |-> out[last].action,
                             confidence |-> out[last].confidence, recorded |-> FALSE]
             /\ last_signals' = [k \in DOMAIN last_signals \cup fresh |->
                                   IF k \in fresh THEN now ELSE last_signals[k]]
    /\ UNCHANGED <<now, running, threadVars, elapsed, histVars, mainVars, chat_id, scVars>>

\* lines 778-817: the whole handler; it neither reads nor writes last_signals
SignalCommand ==
    /\ ~exited
    /\ \E connected \in BOOLEAN :
         IF ~connected
         THEN cmd_sent' = NoAlert
         ELSE cmd_sent' \in { LastDelivered(out, N, last_signals, now) :
                                out \in [1..N -> CmdSymbolOutcomes] }
    /\ UNCHANGED <<now, running, threadVars, last_signals, elapsed, histVars,
                   mainVars, chat_id, scVars>>

\* A variant of /start that also empties the map of recorded keys
StartCommandReset ==
    /\ ~exited
    /\ chat_id' \in ChatIds
    /\ cmd_sent' = NoAlert
    /\ last_signals' = EmptyMap
    /\ UNCHANGED <<now, running, threadVars, elapsed, histVars, mainVars, scVars>>

\* lines 670-700: /start adopts the chat it came from, replies and sends the
\* test message (send_test_signal) as a reply
StartCommand ==
    /\ ~exited
    /\ chat_id' \in ChatIds
    /\ cmd_sent' = NoAlert
    /\ UNCHANGED <<now, running, threadVars, last_signals, elapsed, histVars,
                   mainVars, scVars>>

\* lines 702-735: /status replies with the connection state and the time
StatusCommand ==
    /\ ~exited
    /\ cmd_sent' = NoAlert
    /\ UNCHANGED <<now, running, threadVars, last_signals, elapsed, histVars,
                   mainVars, chat_id, scVars>>

\* lines 737-776: /analysis replies with price and trend of SYMBOLS[:4]
AnalysisCommand ==
    /\ ~exited
    /\ \E connected \in BOOLEAN :
         cmd_sent' = NoAlert
    /\ UNCHANGED <<now, running, threadVars, last_signals, elapsed, histVars,
                   mainVars, chat_id, scVars>>

\* lines 819-875: a symbol button replies with the summary and the chart of
\* one analysis; a signal shown there is not handed to delivery
SymbolCommand ==
    /\ ~exited
    /\ \E symbol \in 1..N :
         cmd_sent' = NoAlert
    /\ UNCHANGED <<now, running, threadVars, last_signals, elapsed, histVars,
                   mainVars, chat_id, scVars>>

-----------------------------------------------------------------------------
(* The wall clock *)

\* An approval evaluated in clock hour h can meet a later one of the same hour
\* only while the hour's last unit is within reach of a tick in progress.
Recent(h, t) == (h + 1) * UnitsPerHour - 1 >= t - MaxTickUnits

\* The clock moves on by one unit.  A unit is long against every phase of the
\* thread: the for loop of one tick, one sleep of CHECK_INTERVAL seconds and
\* one back-off of 30 seconds each see at most MaxTickUnits unit boundaries.
Tick(limit) ==
    /\ ~exited /\ now < limit
    /\ elapsed < MaxTickUnits
    /\ now' = now + 1
    /\ elapsed' = elapsed + 1
    /\ approved' = {a \in approved : Recent(a[3], now + 1)}
    /\ UNCHANGED <<running, threadVars, last_signals, gate_log, evaluated, faults,
                   mainVars, cmd_sent, chat_id, scVars>>

AdvanceClock == Tick(MaxTime)

\* the same clock followed for a day, with ticks that take less than one unit
AdvanceClockDay == pc \in {"start", "while", "backoff", "sleep"} /\ Tick(MaxTimeDay)

-----------------------------------------------------------------------------
(* The scorer on its own *)

ScorerIdleInput ==
    [empty |-> TRUE, trend |-> TrendInsufficient, rsi_signal |-> None,
     macd_signal |-> "None", bb_signal |-> "None", patterns |-> <<>>,
     price |-> 0, atr_value |-> 0, sr_levels |-> [support |-> <<>>, resistance |-> <<>>]]

NotScored == [action |-> "NotScored", confidence |-> 0, risk_level |-> "None"]

Score ==
    /\ sc_out = NotScored
    /\ sc_out' = generate_trading_signal(sc_in)
    /\ UNCHANGED <<now, running, threadVars, last_signals, elapsed, histVars,
                   mainVars, cmd_sent, chat_id, sc_in, ind_in, ind_out>>

-----------------------------------------------------------------------------
(* The indicators on their own *)

\* A series of n bars with the values of its last bar: close and the two EMAs,
\* RSI, MACD and signal line, the Bollinger bands, the mean true range.
IndicatorDefaults ==
    [current_price |-> 2, ema20_val |-> 2, ema50_val |-> 2, rsi_value |-> 50,
     macd_val |-> 0, signal_val |-> 0, upper_val |-> 3, lower_val |-> 1, tr_mean |-> 1500]
Levels == 1..3
IndicatorValues ==
    { [IndicatorDefaults EXCEPT !.current_price = c, !.ema20_val = a, !.ema50_val = b] :
        c \in Levels, a \in Levels, b \in Levels }
    \cup { [IndicatorDefaults EXCEPT !.rsi_value = v] : v \in 0..100 }
    \cup { [IndicatorDefaults EXCEPT !.macd_val = m, !.signal_val = g] :
             m \in -1..1, g \in -1..1 }
    \cup { [IndicatorDefaults EXCEPT !.current_price = c, !.upper_val = u, !.lower_val = l] :
             c \in Levels, u \in Levels, l \in Levels }
    \cup { [IndicatorDefaults EXCEPT !.tr_mean = t] : t \in AtrValues }
IndicatorInputs == { [n |-> n, v |-> x] : n \in 0..MaxBars, x \in IndicatorValues }

IndicatorIdleInput == [n |-> 0, v |-> IndicatorDefaults]
NotAnalysed ==
    [trend |-> <<"NotAnalysed">>, rsi_signal |-> <<"NotAnalysed">>, macd_signal |-> "NotAnalysed",
     bb_signal |-> "NotAnalysed", atr_value |-> 0]

\* What analyze_symbol computes at lines 165-182
Indicators(x) ==
    [trend |-> analyze_trend(x.n, x.v.current_price, x.v.ema20_val, x.v.ema50_val),
     rsi_signal |-> analyze_rsi(x.n, x.v.rsi_value),
     macd_signal |-> analyze_macd(x.n, x.v.macd_val, x.v.signal_val),
     bb_signal |-> analyze_bollinger(x.n, x.v.current_price, x.v.upper_val, x.v.lower_val),
     atr_value |-> calculate_atr(x.n, x.v.tr_mean)]

Analyse ==
    /\ ind_out = NotAnalysed
    /\ ind_out' = Indicators(ind_in)
    /\ UNCHANGED <<now, running, threadVars, last_signals, elapsed, histVars,
                   mainVars, cmd_sent, chat_id, sc_in, sc_out, ind_in>>

-----------------------------------------------------------------------------
(* Specifications *)

\* RealTradingBot.__init__ and run up to analysis_thread.start()
ProgramInit ==
    /\ now = 0
    /\ running = FALSE
    /\ exited = FALSE
    /\ pc = "start"
    /\ i = 0
    /\ analysis = NoSignal
    /\ signal_key = NoKey
    /\ key_at = 0
    /\ success = NotCalled
    /\ last_signals = EmptyMap
    /\ gate_log = NoDecision
    /\ elapsed = 0
    /\ approved = {}
    /\ evaluated = NoneEvaluated
    /\ faults = {}
    /\ cancel_idx = -1
    /\ main_pc = "loop"
    /\ cmd_sent = NoAlert
    /\ chat_id = TELEGRAM_CHAT_ID

Init ==
    /\ ProgramInit
    /\ sc_in = ScorerIdleInput
    /\ sc_out = generate_trading_signal(ScorerIdleInput)
    /\ ind_in = IndicatorIdleInput
    /\ ind_out = Indicators(IndicatorIdleInput)

\* The unattended loop, the wall clock and the shutdown of the process
Next ==
    \/ LoopStart
    \/ LoopWhile
    \/ LoopBackoff
    \/ LoopAnalyze
    \/ LoopGate
    \/ LoopSend
    \/ LoopSent
    \/ LoopPurge
    \/ LoopSleep
    \/ Cancel
    \/ ProcessExit
    \/ AdvanceClock

Spec == Init /\ [][Next]_vars

\* The unattended loop alone, with no operator command and no Ctrl-C, for a day
DayNext ==
    \/ LoopStart
    \/ LoopWhile
    \/ LoopBackoff
    \/ LoopAnalyze
    \/ LoopGate
    \/ LoopSend
    \/ LoopSent
    \/ LoopPurge
    \/ LoopSleep
    \/ AdvanceClockDay

DaySpec == Init /\ [][DayNext]_vars

\* The unattended loop and the operator's commands
OperatorNext ==
    \/ LoopStart
    \/ LoopWhile
    \/ LoopBackoff
    \/ LoopAnalyze
    \/ LoopGate
    \/ LoopSend
    \/ LoopSent
    \/ LoopPurge
    \/ LoopSleep
    \/ StartCommand
    \/ StatusCommand
    \/ AnalysisCommand
    \/ SymbolCommand
    \/ SignalCommand
    \/ AdvanceClock

OperatorSpec == Init /\ [][OperatorNext]_vars

\* One step of the analysis thread
LoopStep ==
    \/ LoopStart
    \/ LoopWhile
    \/ LoopBackoff
    \/ LoopAnalyze
    \/ LoopGate
    \/ LoopSend
    \/ LoopSent
    \/ LoopPurge
    \/ LoopSleep

\* The loop and a Ctrl-C, with the process left alive after it so that the
\* thread has all the time it needs; the thread is scheduled again and again
\* and every call and every sleep of it returns.
LiveNext ==
    \/ LoopStep
    \/ Cancel
    \/ AdvanceClock

LiveSpec == Init /\ [][LiveNext]_vars /\ WF_vars(LoopStep)

ScorerInit ==
    /\ ProgramInit
    /\ sc_in \in ScorerInputs
    /\ sc_out = NotScored
    /\ ind_in = IndicatorIdleInput
    /\ ind_out = Indicators(IndicatorIdleInput)

ScorerNext == Score

ScorerSpec == ScorerInit /\ [][ScorerNext]_vars

IndicatorInit ==
    /\ ProgramInit
    /\ sc_in = ScorerIdleInput
    /\ sc_out = generate_trading_signal(ScorerIdleInput)
    /\ ind_in \in IndicatorInputs
    /\ ind_out = NotAnalysed

IndicatorNext == Analyse

IndicatorSpec == IndicatorInit /\ [][IndicatorNext]_vars

-----------------------------------------------------------------------------
(* Properties *)

KeyOf(symbol, action, hour) == <<symbol, action, hour % HoursPerDay>>

\* C1: in the unattended loop, a candidate for (instrument, action) is approved
\* only if no candidate for the same (instrument, action) evaluated in the same
\* clock hour was approved before it: at most one approval per clock hour.
C1_OneApprovalPerHour ==
    [][(pc = "gate" /\ pc' = "send")
         => <<signal_key[1], signal_key[2], HourOf(key_at)>> \notin approved]_vars

\* A second candidate of the same clock hour has been rejected by the gate.
C1_Witness ==
    /\ gate_log.verdict = "rejected"
    /\ gate_log.key[3] = HourLabel(now)
    /\ <<gate_log.key[1], gate_log.key[2], HourOf(now)>> \in approved

\* C2: the loop rejects a candidate only when its key is present and its record
\* was younger than the retention window of one hour when the candidate was
\* evaluated.
C2_RejectsOnlyFreshKeys ==
    [][(pc = "gate" /\ pc' = "for")
         => /\ signal_key \in DOMAIN last_signals
            /\ key_at - last_signals[signal_key] < RetentionUnits]_vars

\* C3 (as stated): an alert the /signal command delivers is one whose key was
\* not recorded in last_signals when it was delivered.
C3_CommandIsGated ==
    cmd_sent # NoAlert => ~cmd_sent.recorded

\* C3 (amended): the gate applies in the unattended loop only; a run of the
\* /signal command leaves last_signals as it is, whatever it delivers.
C3_CommandBypassesGate ==
    [][(cmd_sent' # cmd_sent /\ ~exited') => last_signals' = last_signals]_vars

\* The command has delivered an alert whose key the loop had already recorded.
C3_Witness ==
    /\ cmd_sent # NoAlert
    /\ cmd_sent.recorded
    /\ SignalKey(cmd_sent.symbol, cmd_sent.action, now) \in DOMAIN last_signals

\* C4: once running is cleared during the for loop, no instrument after the one
\* under evaluation is analysed in that tick.
C4_StopsAfterCurrentInstrument ==
    cancel_idx >= 1 => \A k \in 1..N : k > cancel_idx => evaluated[k] = 0

\* C5: with the insufficient-data trend marker the scorer yields no signal, or
\* HOLD with confidence 0, whatever the other inputs are.
C5_NoSignalWithoutTrend ==
    (sc_out # NotScored /\ sc_in.trend = TrendInsufficient)
        => (sc_out = NoSignal \/ (sc_out.action = "HOLD" /\ sc_out.confidence = 0))

\* C6: when chart rendering fails for an approved signal, a notification (text
\* only) is still sent.
C6_TextFallbackOnRenderFailure ==
    (pc = "sent" /\ success.chart = "failed") => success.notified # "none"

\* C7: the key is recorded before delivery is attempted and stays recorded when
\* the delivery call returns False or raises.
C7_NoRollbackOnDeliveryFailure ==
    [][/\ pc \in {"send", "sent"} => signal_key \in DOMAIN last_signals
       /\ (pc = "sent" /\ ~success.ret /\ pc' = "for")
            => (signal_key \in DOMAIN last_signals' /\ last_signals' = last_signals)]_vars

\* A delivery has failed and its key is still recorded.
C7_Witness ==
    /\ pc = "sent"
    /\ ~success.ret
    /\ signal_key \in DOMAIN last_signals

\* C8: within one connected tick every instrument is evaluated exactly once, in
\* order: while the for loop runs, exactly the instruments before the current
\* one (and the current one, once its analysis returned) have been evaluated
\* once and no other at all; when the loop is exhausted, each exactly once,
\* whichever of them failed.
C8_EveryInstrumentOncePerTick ==
    /\ InTick => \A k \in 1..N :
          evaluated[k] = IF k < i \/ (k = i /\ pc # "for") THEN 1 ELSE 0
    /\ pc = "sleep" => \A k \in 1..N : evaluated[k] = 1
    /\ InTick \/ pc = "sleep" => faults \subseteq {k \in 1..N : evaluated[k] = 1}

\* A tick has ended in which the first instrument failed and the last one was
\* evaluated all the same.
C8_Witness ==
    /\ pc = "sleep"
    /\ 1 \in faults
    /\ evaluated[N] = 1

TickEnds == (pc = "for" /\ pc' = "sleep") \/ (pc = "backoff" /\ pc' = "while")
C10_PurgedAfterEveryTick ==
    [][TickEnds => \A k \in DOMAIN last_signals' :
                      now' - last_signals'[k] < RetentionUnits]_vars

\* C11: a signal is handed to delivery only when its action is not HOLD and its
\* confidence is strictly above the threshold of its call site: the candidate the
\* loop is about to send is a BUY or a SELL above 70, and an alert the /signal
\* command delivered is a BUY or a SELL above 60.
C11_OnlyAboveThreshold ==
    /\ pc \in {"gate", "send"} => (analysis.action \in {"BUY", "SELL"} /\ analysis.confidence > 70)
    /\ cmd_sent # NoAlert => (cmd_sent.action \in {"BUY", "SELL"} /\ cmd_sent.confidence > 60)

\* The loop is about to send a candidate and the command has delivered one.
C11_Witness ==
    /\ pc = "send"
    /\ analysis.action \in {"BUY", "SELL"}
    /\ cmd_sent # NoAlert
    /\ cmd_sent.confidence > 60

\* The scorer has returned a signal dict (not None)
Scored == sc_out # NotScored /\ sc_out # NoSignal

\* C12: for every combination of indicator inputs the confidence equals
\* min(100, max(0, 50 + points)): it is 100 from 50 points up, 0 from -50 points
\* down and 50 + points in between, so it lies in [0, 100]; points is a
\* multiple of 5 between -95 and +95.
C12_ConfidenceClamped ==
    Scored =>
        LET points == ConfidencePoints(sc_in)
        IN  /\ sc_out.confidence \in 0..100
            /\ points >= 50 => sc_out.confidence = 100
            /\ points <= -50 => sc_out.confidence = 0
            /\ (points > -50 /\ points < 50) => sc_out.confidence = 50 + points
            /\ points % 5 = 0
            /\ points >= -95 /\ points <= 95

\* All factors maximally bullish: 95 points, confidence 100.
C12_Witness ==
    /\ Scored
    /\ ConfidencePoints(sc_in) = 95
    /\ sc_out.confidence = 100

\* C13: for every points total the action is BUY iff points >= 30, SELL iff
\* points <= -30 and HOLD otherwise, the risk level is LOW iff |points| >= 50
\* and MEDIUM otherwise; 25 points give HOLD, confidence 75, MEDIUM and
\* sl = tp = 0.
C13_ActionAndRiskFromPoints ==
    Scored =>
        /\ sc_out.action \in {"BUY", "SELL", "HOLD"}
        /\ sc_out.action = "BUY" <=> sc_out.points >= 30
        /\ sc_out.action = "SELL" <=> sc_out.points <= -30
        /\ sc_out.risk_level \in {"LOW", "MEDIUM"}
        /\ sc_out.risk_level = "LOW" <=> (sc_out.points >= 50 \/ sc_out.points <= -50)
        /\ sc_out.points = 25 =>
              /\ sc_out.action = "HOLD"
              /\ sc_out.confidence = 75
              /\ sc_out.risk_level = "MEDIUM"
              /\ sc_out.sl = 0
              /\ sc_out.tp = 0

\* A bullish trend, a buy-leaning RSI and an upper Bollinger band: 25 points.
C13_Witness ==
    /\ Scored
    /\ sc_out.points = 25
    /\ sc_out.action = "HOLD"
    /\ sc_out.confidence = 75

\* The scoring table, by the label each indicator returned
TableTrend(trend) ==
    IF trend \in {TrendStrongBull, TrendBull} THEN 20
    ELSE IF trend \in {TrendStrongBear, TrendBear} THEN -20 ELSE 0
TableRsi(rsi_signal) ==
    IF rsi_signal \in {RsiOversold, RsiBuyLeaning} THEN 15
    ELSE IF rsi_signal \in {RsiOverbought, RsiSellLeaning} THEN -15 ELSE 0
TableMacd(macd_signal) ==
    IF macd_signal = "BYCHIY" THEN 15 ELSE IF macd_signal = "MEDVEZHIY" THEN -15 ELSE 0
TableBb(bb_signal) ==
    IF bb_signal = "NIZHNYAYA GRANITSA" THEN 10
    ELSE IF bb_signal = "VERKHNYAYA GRANITSA" THEN -10 ELSE 0
TablePatterns(patterns) ==
    10 * Cardinality({k \in 1..Len(patterns) : patterns[k] \in {"Molot", "Bychye pogloshchenie"}})
    - 10 * Cardinality({k \in 1..Len(patterns) :
                          patterns[k] \in {"Medvezhye pogloshchenie", "Dodzhi"}})
Within02Percent(price, levels) ==
    \E k \in 1..Len(levels) : 1000 * Abs(price - levels[k]) < 2 * levels[k]
TableLevels(price, sr_levels) ==
    (IF Within02Percent(price, sr_levels.support) THEN 15 ELSE 0)
    - (IF Within02Percent(price, sr_levels.resistance) THEN 15 ELSE 0)

\* Scenario A: bullish trend, oversold RSI, bullish MACD, lower band, bullish
\* engulfing, a support within 0.2% and no resistance near
ScenarioA ==
    /\ sc_in.trend \in {TrendStrongBull, TrendBull}
    /\ sc_in.rsi_signal = RsiOversold
    /\ sc_in.macd_signal = "BYCHIY"
    /\ sc_in.bb_signal = "NIZHNYAYA GRANITSA"
    /\ sc_in.patterns = <<"Bychye pogloshchenie">>
    /\ Within02Percent(sc_in.price, sc_in.sr_levels.support)
    /\ ~Within02Percent(sc_in.price, sc_in.sr_levels.resistance)

C15_ExactStopAndTarget ==
    Scored =>
        /\ sc_out.action = "BUY" =>
              /\ 2 * sc_out.sl = 2 * sc_in.price - 3 * sc_in.atr_value
              /\ 2 * sc_out.tp = 2 * sc_in.price + 5 * sc_in.atr_value
        /\ sc_out.action = "SELL" =>
              /\ 2 * sc_out.sl = 2 * sc_in.price + 3 * sc_in.atr_value
              /\ 2 * sc_out.tp = 2 * sc_in.price - 5 * sc_in.atr_value
        /\ sc_out.action = "HOLD" => (sc_out.sl = 0 /\ sc_out.tp = 0)

\* v is x2 / 2 rounded to 5 decimals: a multiple of 10^-5 at most half of
\* 10^-5 away from it (values in units of 10^-6)
IsRounded5(v, x2) == v % 10 = 0 /\ Abs(2 * v - x2) <= 10

\* C15 (amended): sl and tp are price -/+ 1.5 ATR and price +/- 2.5 ATR for BUY
\* (mirrored for SELL), each rounded to 5 decimals, and 0 for HOLD.
C15_RoundedStopAndTarget ==
    Scored =>
        /\ sc_out.action = "BUY" =>
              /\ IsRounded5(sc_out.sl, 2 * sc_in.price - 3 * sc_in.atr_value)
              /\ IsRounded5(sc_out.tp, 2 * sc_in.price + 5 * sc_in.atr_value)
        /\ sc_out.action = "SELL" =>
              /\ IsRounded5(sc_out.sl, 2 * sc_in.price + 3 * sc_in.atr_value)
              /\ IsRounded5(sc_out.tp, 2 * sc_in.price - 5 * sc_in.atr_value)
        /\ sc_out.action = "HOLD" => (sc_out.sl = 0 /\ sc_out.tp = 0)

\* A SELL whose stop loss is not the exact price + 1.5 ATR.
C15_Witness ==
    /\ Scored
    /\ sc_out.action = "SELL"
    /\ sc_in.atr_value > 0
    /\ 2 * sc_out.sl # 2 * sc_in.price + 3 * sc_in.atr_value
    /\ sc_out.tp < sc_in.price

\* C16: last_signals changes only in the gate of the unattended loop (an
\* approval at line 1109, the purge at lines 1125-1128): every operator command
\* and the delivery routine leave it as it is.
C16_OnlyTheLoopWritesTheMap ==
    [][/\ last_signals' # last_signals
            => \/ pc = "gate" /\ pc' = "send"
               \/ pc = "for" /\ pc' = "sleep"
       /\ (cmd_sent' # cmd_sent \/ chat_id' # chat_id) => last_signals' = last_signals
       /\ pc = "send" => last_signals' = last_signals]_vars

\* Commands have run (/start from another chat, then a /signal that
\* delivered) while the loop's records are in the map.
C16_Witness ==
    /\ chat_id # TELEGRAM_CHAT_ID
    /\ cmd_sent # NoAlert
    /\ last_signals # EmptyMap

\* The indicators have been computed for the series
Analysed == ind_out # NotAnalysed

\* C17: each indicator has its own minimum length: for n bars the trend is the
\* insufficient-data marker iff n < 20, RSI is None iff n < 15, MACD is None
\* iff n < 35, Bollinger is None iff n < 20 and ATR is 0 when n < 14; 14 bars
\* give an ATR value (the mean true range) and no RSI.
C17_IndependentMinimumLengths ==
    Analysed =>
        /\ ind_out.trend = TrendInsufficient <=> ind_in.n < 20
        /\ ind_out.rsi_signal = None <=> ind_in.n < 15
        /\ ind_out.macd_signal = "None" <=> ind_in.n < 35
        /\ ind_out.bb_signal = "None" <=> ind_in.n < 20
        /\ ind_in.n < 14 => ind_out.atr_value = 0
        /\ ind_in.n = 14 => (ind_out.atr_value = ind_in.v.tr_mean /\ ind_out.rsi_signal = None)

\* A series of 14 bars has an ATR and no RSI.
C17_Witness ==
    /\ Analysed
    /\ ind_in.n = 14
    /\ ind_out.atr_value > 0
    /\ ind_out.rsi_signal = None

\* The factor a label of `reasons` belongs to, in the order of evaluation
FactorRank(label) ==
    CASE label[1] \in {"Voskhodyashchiy", "Niskhodyashchiy"} -> 1
      [] label[1] \in {"Pereprodannost", "Perekuplennost"} -> 2
      [] label[1] \in {"Bychiy", "Medvezhiy"} -> 3
      [] label[1] \in {"Nizhnyaya", "Verkhnyaya"} -> 4
      [] label[1] = "Pattern" -> 5
      [] label[1] = "Podderzhka" -> 6
      [] label[1] = "Soprotivlenie" -> 7
      [] OTHER -> 0
LabelsOfRank(reason, r) == {k \in 1..Len(reason) : FactorRank(reason[k]) = r}
IsPatternLabel(label) == FactorRank(label) = 5
Contribution(in, r) ==
    CASE r = 1 -> TableTrend(in.trend)
      [] r = 2 -> TableRsi(in.rsi_signal)
      [] r = 3 -> TableMacd(in.macd_signal)
      [] r = 4 -> TableBb(in.bb_signal)
      [] r = 6 -> IF Within02Percent(in.price, in.sr_levels.support) THEN 15 ELSE 0
      [] r = 7 -> IF Within02Percent(in.price, in.sr_levels.resistance) THEN -15 ELSE 0

\* C18: reasons holds exactly one label per factor that contributed a non-zero
\* amount (one per scoring pattern, in detection order), in the order trend,
\* RSI, MACD, Bollinger, patterns, support, resistance; a factor that
\* contributed nothing adds no label.
C18_OneReasonPerContribution ==
    Scored =>
        LET reason == sc_out.reason
        IN  /\ \A k \in 1..Len(reason) : FactorRank(reason[k]) \in 1..7
            /\ \A r \in {1, 2, 3, 4, 6, 7} :
                  Cardinality(LabelsOfRank(reason, r)) = IF Contribution(sc_in, r) # 0 THEN 1 ELSE 0
            /\ SelectSeq(reason, IsPatternLabel)
                  = [k \in 1..Len(sc_in.patterns) |-> <<"Pattern", sc_in.patterns[k]>>]
            /\ \A j \in 1..Len(reason), k \in 1..Len(reason) :
                  j < k => FactorRank(reason[j]) <= FactorRank(reason[k])

\* A signal with a label for the trend, two patterns and a resistance, and
\* none for a neutral RSI.
C18_Witness ==
    /\ Scored
    /\ sc_in.rsi_signal = RsiNeutral
    /\ Len(sc_in.patterns) = 2
    /\ Len(sc_out.reason) = 4
    /\ FactorRank(sc_out.reason[1]) = 1
    /\ FactorRank(sc_out.reason[4]) = 7

\* The five strength labels
FiveLabels == {TrendStrongBull, TrendBull, TrendStrongBear, TrendBear, TrendSideways}

\* C19: for a series of at least 20 bars analyze_trend returns one of the five
\* labels, strong-bullish exactly when close > ema20 > ema50 and
\* strong-bearish exactly when close < ema20 < ema50, and each of the five
\* labels is returned for at least one (close, ema20, ema50).
C19_FiveLabelsAllReturned ==
    (Analysed /\ ind_in.n >= 20) =>
        /\ ind_out.trend \in FiveLabels
        /\ ind_out.trend = TrendStrongBull
              <=> (ind_in.v.current_price > ind_in.v.ema20_val
                   /\ ind_in.v.ema20_val > ind_in.v.ema50_val)
        /\ ind_out.trend = TrendStrongBear
              <=> (ind_in.v.current_price < ind_in.v.ema20_val
                   /\ ind_in.v.ema20_val < ind_in.v.ema50_val)
        /\ \A label \in FiveLabels :
              \E c \in Levels, a \in Levels, b \in Levels :
                 analyze_trend(ind_in.n, c, a, b) = label

\* C20: with an RSI value in [0, 100] the label is oversold below 30,
\* buy-leaning between 30 and 40, neutral between 40 and 60, sell-leaning
\* between 60 and 70 and overbought above 70; each of 30, 40, 60 and 70 gets one
\* of its two neighbouring bands; the scorer adds +15 for oversold or
\* buy-leaning, -15 for overbought or sell-leaning and 0 for neutral.
C20_RsiBandsAndPoints ==
    (Analysed /\ ind_in.n >= 15) =>
        LET v == ind_in.v.rsi_value
            band == ind_out.rsi_signal
        IN  /\ band \in {RsiOversold, RsiBuyLeaning, RsiNeutral, RsiSellLeaning, RsiOverbought}
            /\ v < 30 => band = RsiOversold
            /\ v = 30 => band \in {RsiOversold, RsiBuyLeaning}
            /\ (v > 30 /\ v < 40) => band = RsiBuyLeaning
            /\ v = 40 => band \in {RsiBuyLeaning, RsiNeutral}
            /\ (v > 40 /\ v < 60) => band = RsiNeutral
            /\ v = 60 => band \in {RsiNeutral, RsiSellLeaning}
            /\ (v > 60 /\ v < 70) => band = RsiSellLeaning
            /\ v = 70 => band \in {RsiSellLeaning, RsiOverbought}
            /\ v > 70 => band = RsiOverbought
            /\ band \in {RsiOversold, RsiBuyLeaning} => RsiPoints(band) = 15
            /\ band \in {RsiOverbought, RsiSellLeaning} => RsiPoints(band) = -15
            /\ band = RsiNeutral => RsiPoints(band) = 0

\* The boundary value 40 has been classified, as buy-leaning, worth +15.
C20_Witness ==
    /\ Analysed
    /\ ind_in.n >= 15
    /\ ind_in.v.rsi_value = 40
    /\ ind_out.rsi_signal = RsiBuyLeaning
    /\ RsiPoints(ind_out.rsi_signal) = 15

\* C21: every signal of the scorer has confidence >= 80 if it is a BUY, <= 20
\* if it is a SELL and between 25 and 75 if it is a HOLD; so no SELL passes the
\* loop's test (> 70) or the command's (> 60): the candidate the loop takes to
\* its gate and to delivery, and every alert the /signal command delivers, is
\* a BUY.
C21_OnlyBuyIsDelivered ==
    /\ \A r \in AnalysisResults :
          /\ r.action = "BUY" => r.confidence >= 80
          /\ r.action = "SELL" => r.confidence <= 20
          /\ r.action = "HOLD" => (r.confidence >= 25 /\ r.confidence <= 75)
          /\ r.action = "SELL" => (~PassesAuto(r) /\ ~PassesManual(r))
    /\ pc \in {"gate", "send"} => analysis.action = "BUY"
    /\ cmd_sent # NoAlert => cmd_sent.action = "BUY"

\* The scorer does return SELL signals, and both the loop and the command
\* have a BUY in hand.
C21_Witness ==
    /\ \E r \in AnalysisResults : r.action = "SELL" /\ r.confidence = 0
    /\ pc = "send"
    /\ analysis.action = "BUY"
    /\ cmd_sent # NoAlert
    /\ cmd_sent.action = "BUY"

\* C22: once self.running has been set to False, at any time after the
\* analysis thread was started (its first statement executed or not), the
\* thread eventually leaves its while loop and closes its event loop.
C22_CancellationStopsTheLoop ==
    (main_pc = "exiting") ~> (pc = "done")

\* C23: for every BUY signal sl < price < tp and for every SELL signal
\* tp < price < sl: stop loss and take profit lie strictly on opposite sides of
\* the entry price, also when calculate_atr gave 0 for a series of fewer than
\* AtrPeriod bars.
C23_StopAndTargetStraddlePrice ==
    Scored =>
        /\ sc_out.action = "BUY" => (sc_out.sl < sc_in.price /\ sc_in.price < sc_out.tp)
        /\ sc_out.action = "SELL" => (sc_out.tp < sc_in.price /\ sc_in.price < sc_out.sl)

\* C24: for a series of at least 20 bars analyze_bollinger returns exactly one
\* of upper band, lower band, inside, and tests the upper band first: a close
\* >= the upper band gives upper band, also when it is <= the lower band as
\* well (zero-width band), and the scorer counts that as -10; a close below the
\* upper band and <= the lower band gives lower band (+10); any other close
\* gives inside (0).
C24_UpperBandTestedFirst ==
    (Analysed /\ ind_in.n >= BollingerPeriod) =>
        LET c == ind_in.v.current_price
            u == ind_in.v.upper_val
            l == ind_in.v.lower_val
            bb == ind_out.bb_signal
        IN  /\ bb \in {"VERKHNYAYA GRANITSA", "NIZHNYAYA GRANITSA", "VNUTRI KANALA"}
            /\ c >= u => bb = "VERKHNYAYA GRANITSA"
            /\ (c < u /\ c <= l) => bb = "NIZHNYAYA GRANITSA"
            /\ (c < u /\ c > l) => bb = "VNUTRI KANALA"
            /\ (c >= u /\ c <= l) => BbPoints(bb) = -10
            /\ (c < u /\ c <= l) => BbPoints(bb) = 10
            /\ (c < u /\ c > l) => BbPoints(bb) = 0

\* A zero-width band with the close on it has been classified as upper band.
C24_Witness ==
    /\ Analysed
    /\ ind_in.n >= BollingerPeriod
    /\ ind_in.v.current_price = ind_in.v.upper_val
    /\ ind_in.v.current_price = ind_in.v.lower_val
    /\ ind_out.bb_signal = "VERKHNYAYA GRANITSA"
    /\ BbPoints(ind_out.bb_signal) = -10

====
